---- MODULE Spec2Model ----
(***************************************************************************)
(* A model of google-adds-pull-params.py: the orchestrator main(), the     *)
(* breadth-first account-hierarchy traversal get_full_account_hierarchy()  *)
(* and the per-account click query query_clicks_for_customer().            *)
(*                                                                         *)
(* The remote Google Ads service is the environment.  Its account graph    *)
(* (children, is_manager) is fixed for a run; the order in which it        *)
(* streams the rows of a listing, whether and where a listing fails, and   *)
(* what a click query answers are chosen when the call is made.            *)
(* Account IDs are the integers 1..NumAccounts (the code handles them as   *)
(* their decimal strings), calendar dates are day numbers.                 *)
(***************************************************************************)
EXTENDS Integers, Sequences, FiniteSets, TLC

\* ------------------------------------------------------------- bounds
NumAccounts == 3
\* parent -> child links in the account graph
MaxLinks == 4
\* rows in one answer of the click report
MaxRows == 2
\* entries of GoogleAdsException.failure.errors
MaxErrors == 2

AccountIds == 1..NumAccounts

\* ------------------------------------------------------ configuration
REQUIRED_FIELDS ==
    {"developer_token", "client_id", "client_secret",
     "refresh_token", "login_customer_id"}

\* The configured login customer id, written with a separator.
LoginForm == <<"1", "-">>

\* A configuration value is a character sequence; the empty one is what
\* os.getenv(..., "") yields for an unset variable.
ConfigValue(field, present) ==
    IF ~present THEN <<>>
    ELSE IF field = "login_customer_id" THEN LoginForm ELSE <<"x">>

\* Configurations: complete, or with exactly one required field empty.
GOOGLE_ADS_CONFIG_Space ==
    {[f \in REQUIRED_FIELDS |-> ConfigValue(f, f \notin missing)] :
        missing \in {{}} \cup {{f} : f \in REQUIRED_FIELDS}}

\* str(...).replace("-", "")
StripHyphens(s) == SelectSeq(s, LAMBDA c : c # "-")

DigitChars == <<"1", "2", "3", "4", "5", "6", "7", "8", "9">>

\* The account a (single digit) decimal string names.
AccountOf(s) == CHOOSE d \in DOMAIN DigitChars : DigitChars[d] = s[1]

\* Variant: the developer token is left out of the required fields.
MissingFieldsWithoutToken(creds) ==
    {f \in REQUIRED_FIELDS \ {"developer_token"} : creds[f] = <<>>}

\* [field for field in REQUIRED_FIELDS if not creds.get(field)]
MissingFields(creds) == {f \in REQUIRED_FIELDS : creds[f] = <<>>}

\* --------------------------------------------------------- the service
\* Calendar days on which a run may start, and the days a row may carry.
Todays == {2, 3}
RowDates == {1, 2}

\* (datetime.now(timezone.utc) - timedelta(days=1)).date()
TargetDate(now) == now - 1

\* A row of the click_view report.
RawRows ==
    [gclid : {"", "gclid-a"}, campaign_id : {11}, ad_group_id : {22},
     date : RowDates]

\* An entry of GoogleAdsException.failure.errors (never an empty list).
ApiErrors ==
    {[code |-> "USER_PERMISSION_DENIED", message |-> "denied"],
     [code |-> "OTHER", message |-> "quota"],
     [code |-> "OTHER", message |-> "internal"]}

SeqsUpTo(S, n) == UNION {[1..k -> S] : k \in 0..n}

\* What service.search + list(response) can do: deliver all rows, fail with
\* a GoogleAdsException after some rows were paged in, or raise anything else.
ClickResponses ==
    {[kind |-> "rows", rows |-> r, errors |-> <<>>] : r \in SeqsUpTo(RawRows, MaxRows)}
    \cup {[kind |-> "api_error", rows |-> r, errors |-> e] :
            r \in SeqsUpTo(RawRows, MaxRows), e \in SeqsUpTo(ApiErrors, MaxErrors) \ {<<>>}}
    \cup {[kind |-> "unexpected", rows |-> <<>>, errors |-> <<>>]}

\* The answers drawn during a whole run: of the answers that differ only in
\* what query_clicks_for_customer does not hand to main (the click id, the
\* further reported errors, how much was paged in before a failure), one.
SweepResponses ==
    {r \in ClickResponses :
        /\ \A j \in DOMAIN r.rows : r.rows[j].gclid = "gclid-a"
        /\ r.kind = "api_error" => Len(r.errors) = 1 /\ Len(r.rows) <= 1}

\* All orders in which a finite set can be streamed.
RECURSIVE Orders(_)
Orders(S) ==
    IF S = {} THEN {<<>>}
    ELSE UNION {{<<x>> \o t : t \in Orders(S \ {x})} : x \in S}

\* ------------------------------------------------------------- state
VARIABLES
    GOOGLE_ADS_CONFIG,       \* the module-level configuration dictionary
    children,                \* service: the enabled accounts a listing under m reports
    is_manager,              \* service: customer_client.manager of each account
    pc,                      \* where main() is
    manager_ids_to_process,  \* the deque of get_full_account_hierarchy
    processed_manager_ids,   \* its visited-set
    client_customer_ids,     \* its result set
    outcome,                 \* history: how the listing call for each account ended
    expansions,              \* history: listing calls issued per account (stops at 2)
    bfs,                     \* history, kept where the order of expansion is studied
    customer_ids_to_query,   \* main: sorted(list(...)) of the traversal's result
    next_index,              \* main: position of the fetch loop in that list
    query_date,              \* main: the target date
    all_data,                \* main: the aggregated records
    last_call,               \* a single call of query_clicks_for_customer: arguments, answer, result
    off_date,                \* history: a delivered row carried another date than asked
    fetched,                 \* history: the accounts queried so far, each with what came back
    last_kind,               \* history: how the latest click query of the run ended
    files                    \* the output files written, each a JSON array

vars ==
    <<GOOGLE_ADS_CONFIG, children, is_manager, pc,
      manager_ids_to_process, processed_manager_ids, client_customer_ids,
      outcome, expansions, customer_ids_to_query, next_index, query_date,
      all_data, last_call, off_date, files, bfs, fetched, last_kind>>

serviceVars == <<GOOGLE_ADS_CONFIG, children, is_manager>>
traversalVars ==
    <<manager_ids_to_process, processed_manager_ids, client_customer_ids,
      outcome, expansions, bfs>>
fetchVars ==
    <<customer_ids_to_query, next_index, all_data, last_call, off_date,
      fetched, last_kind>>

\* Nothing expanded, nothing discovered yet.
NoTrace ==
    [discovered |-> <<>>, expanded |-> <<>>, depth |-> [a \in AccountIds |-> 0]]

NoCall == [customer_id |-> 0, query_date |-> 0,
           response |-> [kind |-> "none", rows |-> <<>>, errors |-> <<>>],
           ret |-> <<>>, raised |-> FALSE, log |-> <<>>]

Links(ch) == {l \in AccountIds \X AccountIds : l[2] \in ch[l[1]]}

\* The account graphs of the service.  The configured root is a manager
\* account (docstring of get_full_account_hierarchy); an account that is no
\* manager has no accounts under it.
AccountGraphs ==
    {g \in [children : [AccountIds -> SUBSET AccountIds],
            is_manager : [AccountIds -> BOOLEAN]] :
        /\ g.is_manager[AccountOf(StripHyphens(LoginForm))]
        /\ \A a \in AccountIds : ~g.is_manager[a] => g.children[a] = {}
        /\ Cardinality(Links(g.children)) <= MaxLinks}

\* A run with incomplete credentials never reaches the service: one account
\* graph stands for all of them there.
Init ==
    /\ GOOGLE_ADS_CONFIG \in GOOGLE_ADS_CONFIG_Space
    /\ \E g \in AccountGraphs :
          /\ MissingFields(GOOGLE_ADS_CONFIG) # {} =>
                \A a \in AccountIds : g.children[a] = {} /\ g.is_manager[a]
          /\ children = g.children
          /\ is_manager = g.is_manager
    /\ pc = "start"
    /\ manager_ids_to_process = <<>>
    /\ processed_manager_ids = {}
    /\ client_customer_ids = {}
    /\ outcome = [a \in AccountIds |-> "none"]
    /\ expansions = [a \in AccountIds |-> 0]
    /\ customer_ids_to_query = <<>>
    /\ next_index = 0
    /\ query_date = 0
    /\ all_data = <<>>
    /\ last_call = NoCall
    /\ off_date = FALSE
    /\ files = <<>>
    /\ bfs = NoTrace
    /\ fetched = <<>>
    /\ last_kind = "none"

\* ------------------------------------------- get_full_account_hierarchy
\* The rows search_stream delivers for manager m, in the order `order`.
ListingRows(m, order) ==
    [j \in DOMAIN order |-> [id |-> order[j], manager |-> is_manager[order[j]]]]

\* Variant: the head of the deque is read and left in place.
PopLeftPeek(queue) == queue

\* manager_ids_to_process.popleft()
PopLeft(queue) == Tail(queue)

\* Variant: a linked manager is marked as processed and never enqueued.
ProcessRowNoEnqueue(st, row) ==
    IF row.manager
    THEN [st EXCEPT !.processed = @ \cup {row.id}]
    ELSE [st EXCEPT !.clients = @ \cup {row.id}]

\* Variant: a linked manager is enqueued whether or not it was seen before.
ProcessRowNoVisitedCheck(st, row) ==
    IF row.manager
    THEN [st EXCEPT !.processed = @ \cup {row.id},
                    !.queue = Append(@, row.id)]
    ELSE [st EXCEPT !.clients = @ \cup {row.id}]

\* Variant: a new manager is put at the front of the queue.
ProcessRowAppendLeft(st, row) ==
    IF row.manager
    THEN IF row.id \notin st.processed
         THEN [st EXCEPT !.processed = @ \cup {row.id},
                         !.queue = <<row.id>> \o @]
         ELSE st
    ELSE [st EXCEPT !.clients = @ \cup {row.id}]

\* Variant: a linked client is put on the queue like a manager.
ProcessRowEnqueuesClients(st, row) ==
    IF row.id \notin st.processed
    THEN [st EXCEPT !.processed = @ \cup {row.id},
                    !.queue = Append(@, row.id),
                    !.clients = IF row.manager THEN @ ELSE @ \cup {row.id}]
    ELSE st

\* Variant: every linked account is also put into the result set.
ProcessRowAllClients(st, row) ==
    LET queued == IF row.manager /\ row.id \notin st.processed
                  THEN [st EXCEPT !.processed = @ \cup {row.id},
                                  !.queue = Append(@, row.id)]
                  ELSE st
    IN [queued EXCEPT !.clients = @ \cup {row.id}]

\* The body of the row loop, on the traversal's three collections.
ProcessRow(st, row) ==
    IF row.manager
    THEN IF row.id \notin st.processed
         THEN [st EXCEPT !.processed = @ \cup {row.id},
                         !.queue = Append(@, row.id)]
         ELSE st
    ELSE [st EXCEPT !.clients = @ \cup {row.id}]

\* for batch in response_stream: for row in batch.results: ...
RECURSIVE ProcessRows(_, _)
ProcessRows(st, rows) ==
    IF rows = <<>> THEN st
    ELSE ProcessRows(ProcessRow(st, Head(rows)), Tail(rows))

\* Variant: the except clause re-raises.
ListingHandlerRaises(kind) == "raise"

\* What the try statement does with the way the listing ended: the except
\* clause takes a GoogleAdsException and goes on with the loop, anything
\* else leaves the function.
ListingHandler(kind) ==
    IF kind = "api_error" THEN "continue" ELSE "raise"

\* The collections after the except clause: `after` is what the rows consumed
\* before the error made of `before`; the clause logs and continues, it
\* undoes nothing.
AfterListingError(before, after) == after

Bump(n) == IF n < 2 THEN n + 1 ELSE n

\* The managers a stream of rows makes known, in the order of the rows.
RECURSIVE NewManagers(_, _)
NewManagers(rows, known) ==
    IF rows = <<>> THEN <<>>
    ELSE IF Head(rows).manager /\ Head(rows).id \notin known
    THEN <<Head(rows).id>> \o NewManagers(Tail(rows), known \cup {Head(rows).id})
    ELSE NewManagers(Tail(rows), known)

\* The history of the order of expansion after m was dequeued and `rows`
\* were worked through.
Traced(m, rows) ==
    LET new == NewManagers(rows, processed_manager_ids)
    IN [discovered |-> bfs.discovered \o new,
        expanded |-> Append(bfs.expanded, m),
        depth |-> [a \in DOMAIN bfs.depth |->
                     IF \E j \in DOMAIN new : new[j] = a
                     THEN bfs.depth[m] + 1 ELSE bfs.depth[a]]]

\* One iteration of the while loop: dequeue m, stream its listing and work
\* through the rows; the stream may end, or the call or the stream may raise
\* after k rows.  An exception that is not absorbed leaves
\* get_full_account_hierarchy (its frame, with the collections, is gone) and
\* main's handler re-raises it.  With `replay`, a listing that was called
\* before ends the way it ended then; with `traced`, bfs is kept.
ExpandStep(replay, traced) ==
    /\ manager_ids_to_process # <<>>
    /\ LET m == Head(manager_ids_to_process)
           before == [processed |-> processed_manager_ids,
                      queue |-> PopLeft(manager_ids_to_process),
                      clients |-> client_customer_ids]
       IN \E order \in Orders(children[m]), kind \in {"ok", "api_error", "unexpected"} :
          \E k \in 0..Len(order) :
             /\ kind = "ok" => k = Len(order)
             /\ kind = "unexpected" => k = 0
             /\ (replay /\ outcome[m] # "none") => kind = outcome[m]
             /\ LET rows == SubSeq(ListingRows(m, order), 1, k)
                    after == ProcessRows(before, rows)
                    raises == kind # "ok" /\ ListingHandler(kind) = "raise"
                    st == IF kind = "ok" THEN after
                          ELSE IF raises
                          THEN [processed |-> {}, queue |-> <<>>, clients |-> {}]
                          ELSE AfterListingError(before, after)
                IN /\ manager_ids_to_process' = st.queue
                   /\ processed_manager_ids' = st.processed
                   /\ client_customer_ids' = st.clients
                   /\ pc' = IF raises THEN "failed" ELSE pc
                   /\ bfs' = IF traced THEN Traced(m, rows) ELSE bfs
             /\ outcome' = [outcome EXCEPT ![m] = kind]
             /\ expansions' = [expansions EXCEPT ![m] = Bump(@)]
    /\ UNCHANGED <<serviceVars, fetchVars, query_date, files>>

ExpandManager ==
    /\ pc = "traverse"
    /\ ExpandStep(FALSE, FALSE)

\* -------------------------------------------- query_clicks_for_customer
\* Variant: the record is stamped with the day after the row's date.
ClickRecordShiftedDate(row, customer_id) ==
    [gclid |-> row.gclid,
     campaign_id |-> row.campaign_id,
     ad_group_id |-> row.ad_group_id,
     timestamp |-> row.date + 1,
     customer_id |-> customer_id]

\* One element of `results`, built from a row of the response.
ClickRecord(row, customer_id) ==
    [gclid |-> row.gclid,
     campaign_id |-> row.campaign_id,
     ad_group_id |-> row.ad_group_id,
     timestamp |-> row.date,
     customer_id |-> customer_id]

\* Variant: the records are built from the last row to the first.
MapRowsReversed(processed_rows, customer_id) ==
    [j \in DOMAIN processed_rows |->
        ClickRecord(processed_rows[Len(processed_rows) + 1 - j], customer_id)]

\* `results` after the branch taken when list(response) succeeded.
MapRows(processed_rows, customer_id) ==
    [j \in DOMAIN processed_rows |-> ClickRecord(processed_rows[j], customer_id)]

\* Variant: the rows are appended while the response is iterated, so what
\* was paged in before the failure is in `results`.
ResultsAppendedWhileIterating(paged_rows, customer_id) ==
    [j \in DOMAIN paged_rows |-> ClickRecord(paged_rows[j], customer_id)]

\* `results` when the except clause is entered: list(response) raised before
\* the first append, whatever was paged in by then.
ResultsAtException(paged_rows, customer_id) == <<>>

\* Some reported error is AuthorizationError.USER_PERMISSION_DENIED.
\* Variant: only the first reported error is looked at.
PermissionDeniedFirstOnly(errors) ==
    errors # <<>> /\ errors[1].code = "USER_PERMISSION_DENIED"

PermissionDenied(errors) ==
    \E j \in DOMAIN errors : errors[j].code = "USER_PERMISSION_DENIED"

\* logging.basicConfig(level=logging.INFO, ...): the records of a sequence of
\* logging calls that pass the configured threshold.
LOG_LEVEL == "INFO"
LevelNo(level) == IF level = "DEBUG" THEN 10 ELSE IF level = "INFO" THEN 20 ELSE 30
Emitted(log) == SelectSeq(log, LAMBDA r : LevelNo(r.level) >= LevelNo(LOG_LEVEL))

\* The function: its return value, whether it raises instead, and the
\* logging calls it makes.  date goes into the text of the query only.
query_clicks_for_customer(customer_id, date, response) ==
    IF response.kind = "unexpected"
    THEN [ret |-> <<>>, raised |-> TRUE, log |-> <<>>]
    ELSE IF response.kind = "rows"
    THEN IF response.rows # <<>>
         THEN [ret |-> MapRows(response.rows, customer_id), raised |-> FALSE,
               log |-> <<[level |-> "INFO", text |-> "retrieved"]>>]
         ELSE [ret |-> <<>>, raised |-> FALSE,
               log |-> <<[level |-> "INFO", text |-> "no data"]>>]
    ELSE IF PermissionDenied(response.errors)
    THEN [ret |-> <<>>, raised |-> FALSE,
          log |-> <<[level |-> "DEBUG", text |-> "permission denied"]>>]
    ELSE [ret |-> ResultsAtException(response.rows, customer_id), raised |-> FALSE,
          log |-> <<[level |-> "WARNING", text |-> response.errors[1].message]>>]

\* ------------------------------------------------------------------ main
\* Variant: the comparison is turned around.
StrGreater(a, b) == a > b

\* decimal strings compare character by character; the accounts of the model
\* have one digit each, so this is the order of their digits.
StrLess(a, b) == a < b

\* sorted(list(customer_ids_to_query))
RECURSIVE Sorted(_)
Sorted(S) ==
    IF S = {} THEN <<>>
    ELSE LET least == CHOOSE x \in S : \A y \in S \ {x} : StrLess(x, y)
         IN <<least>> \o Sorted(S \ {least})

\* Variant: the file is written whatever the aggregate holds.
WritesFileAlways(data) == TRUE

\* if not all_data: return  -- otherwise the file is written
WritesFile(data) == data # <<>>

\* json.dump of a list of flat records: an array of objects whose members
\* are in the insertion order of the dictionary.
JsonDump(data) ==
    [j \in DOMAIN data |->
        << <<"gclid", data[j].gclid>>,
           <<"campaign_id", data[j].campaign_id>>,
           <<"ad_group_id", data[j].ad_group_id>>,
           <<"timestamp", data[j].timestamp>>,
           <<"customer_id", data[j].customer_id>> >>]

\* build_client_with_refresh finds a required field empty: main logs and returns.
StartMissingCredentials ==
    /\ pc = "start"
    /\ MissingFields(GOOGLE_ADS_CONFIG) # {}
    /\ pc' = "aborted"
    /\ UNCHANGED <<serviceVars, traversalVars, fetchVars, query_date, files>>

\* The token refresh raises (no ValueError, no GoogleAdsException): main's
\* first handler does not catch it.
StartRefreshFails ==
    /\ pc = "start"
    /\ MissingFields(GOOGLE_ADS_CONFIG) = {}
    /\ pc' = "crashed"
    /\ UNCHANGED <<serviceVars, traversalVars, fetchVars, query_date, files>>

\* The client is built; main computes the target date and enters
\* get_full_account_hierarchy, which sets up its collections.
Start ==
    /\ pc = "start"
    /\ MissingFields(GOOGLE_ADS_CONFIG) = {}
    /\ LET login_cid == AccountOf(StripHyphens(GOOGLE_ADS_CONFIG["login_customer_id"]))
       IN /\ manager_ids_to_process' = <<login_cid>>
          /\ processed_manager_ids' = {login_cid}
    /\ client_customer_ids' = {}
    /\ \E now \in Todays : query_date' = TargetDate(now)
    /\ all_data' = <<>>
    /\ pc' = "traverse"
    /\ UNCHANGED <<serviceVars, outcome, expansions, bfs, customer_ids_to_query,
                   next_index, last_call, off_date, fetched, last_kind, files>>

\* The queue is empty: the traversal returns its result set and main sorts it.
ReturnHierarchy ==
    /\ pc = "traverse"
    /\ manager_ids_to_process = <<>>
    /\ customer_ids_to_query' = Sorted(client_customer_ids)
    /\ next_index' = 1
    /\ pc' = "fetch"
    /\ UNCHANGED <<serviceVars, traversalVars, query_date, all_data, last_call,
                   off_date, fetched, last_kind, files>>

\* Variant: the aggregate is replaced by the latest non-empty answer.
ExtendOverwrites(aggregate, data) == IF data # <<>> THEN data ELSE aggregate

\* if data: all_data.extend(data)
Extend(aggregate, data) == IF data # <<>> THEN aggregate \o data ELSE aggregate

\* Variant: an exception of the call is swallowed inside the loop.
AfterFetchCallSwallows(raised) == "fetch"

\* Where main is after the call in the loop: an exception leaves the loop
\* for the handler around it, which logs and re-raises.
AfterFetchCall(raised) == IF raised THEN "failed" ELSE "fetch"

\* One iteration of the fetch loop.
FetchAccount ==
    /\ pc = "fetch"
    /\ next_index <= Len(customer_ids_to_query)
    /\ LET cid == customer_ids_to_query[next_index]
       IN \E response \in SweepResponses :
            LET call == query_clicks_for_customer(cid, query_date, response)
                data == call.ret
            IN /\ pc' = AfterFetchCall(call.raised)
               /\ last_kind' = response.kind
               /\ IF call.raised
                  THEN UNCHANGED <<all_data, next_index, off_date, fetched>>
                  ELSE /\ fetched' = Append(fetched, [customer_id |-> cid, ret |-> data])
                       /\ all_data' = Extend(all_data, data)
                       /\ next_index' = next_index + 1
                       /\ off_date' =
                            (off_date \/ (response.kind = "rows" /\
                                \E j \in DOMAIN response.rows :
                                    response.rows[j].date # query_date))
    /\ UNCHANGED <<serviceVars, traversalVars, customer_ids_to_query, query_date,
                   last_call, files>>

\* After the sweep: return without output, or write the one file.
Finish ==
    /\ pc = "fetch"
    /\ next_index > Len(customer_ids_to_query)
    /\ files' = IF WritesFile(all_data) THEN Append(files, JsonDump(all_data)) ELSE files
    /\ pc' = "done"
    /\ UNCHANGED <<serviceVars, traversalVars, fetchVars, query_date>>

Next ==
    \/ StartMissingCredentials
    \/ StartRefreshFails
    \/ Start
    \/ ExpandManager
    \/ ReturnHierarchy
    \/ FetchAccount
    \/ Finish

Spec == Init /\ [][Next]_vars

\* The run up to the return of get_full_account_hierarchy.
NextTraversal ==
    \/ StartMissingCredentials
    \/ StartRefreshFails
    \/ Start
    \/ ExpandManager
    \/ ReturnHierarchy

\* Every call to the service returns or raises and the program is the only
\* thread, so the step the traversal is at is taken.
FairSpec == Init /\ [][NextTraversal]_vars /\ WF_vars(NextTraversal)

\* ------------------------------- query_clicks_for_customer on its own
\* The function applied to any account, date and answer of the service.
InitCalls ==
    /\ GOOGLE_ADS_CONFIG \in {c \in GOOGLE_ADS_CONFIG_Space : MissingFields(c) = {}}
    /\ children = [a \in AccountIds |-> {}]
    /\ is_manager = [a \in AccountIds |-> TRUE]
    /\ pc = "call"
    /\ manager_ids_to_process = <<>>
    /\ processed_manager_ids = {}
    /\ client_customer_ids = {}
    /\ outcome = [a \in AccountIds |-> "none"]
    /\ expansions = [a \in AccountIds |-> 0]
    /\ customer_ids_to_query = <<>>
    /\ next_index = 0
    /\ query_date = 0
    /\ all_data = <<>>
    /\ last_call = NoCall
    /\ off_date = FALSE
    /\ files = <<>>
    /\ bfs = NoTrace
    /\ fetched = <<>>
    /\ last_kind = "none"

CallQueryClicks ==
    /\ pc = "call"
    /\ \E cid \in AccountIds, now \in Todays, response \in ClickResponses :
          LET call == query_clicks_for_customer(cid, TargetDate(now), response)
          IN last_call' = [customer_id |-> cid, query_date |-> TargetDate(now),
                           response |-> response, ret |-> call.ret,
                           raised |-> call.raised, log |-> call.log]
    /\ pc' = "returned"
    /\ UNCHANGED <<serviceVars, traversalVars, customer_ids_to_query, next_index,
                   query_date, all_data, off_date, fetched, last_kind, files>>

NextCalls == CallQueryClicks

CallSpec == InitCalls /\ [][NextCalls]_vars

\* ======================================================= properties
Root == AccountOf(StripHyphens(LoginForm))
Managers == {a \in AccountIds : is_manager[a]}

\* The accounts linked, over any number of links, below the accounts of R,
\* following the links of the managers in E only.
RECURSIVE Below(_, _)
Below(R, E) ==
    LET more == R \cup UNION {children[m] : m \in R \cap E}
    IN IF more = R THEN R ELSE Below(more, E)

Descendants(m, E) == Below(children[m], E)

\* No manager is linked, directly or indirectly, below itself.
AcyclicManagers == \A m \in Managers : m \notin Descendants(m, Managers)

\* The client accounts linked below the root, over managers of E only.
ClientsBelowRoot(E) ==
    IF Root \in E THEN {a \in Descendants(Root, E) : ~is_manager[a]} ELSE {}

ListedOk == {a \in AccountIds : outcome[a] = "ok"}
NoListingFailed == \A a \in AccountIds : outcome[a] \in {"none", "ok"}

\* get_full_account_hierarchy has returned (client_customer_ids is its value).
Returned == pc \in {"fetch", "done"}
\* get_full_account_hierarchy was left by an exception.
TraversalRaised == pc = "failed" /\ next_index = 0

Occurrences(queue, a) == Cardinality({j \in DOMAIN queue : queue[j] = a})

\* C1: on a hierarchy with no cycle among the managers and no failing
\* listing call, the traversal returns exactly the client accounts that are
\* transitively linked below the root.
C1_ResolveReturnsReachableClients ==
    (Returned /\ AcyclicManagers /\ NoListingFailed)
        => client_customer_ids = ClientsBelowRoot(Managers)

\* A two-level hierarchy was resolved: the root lists a manager and a client,
\* that manager lists a client, and the result holds a client of each level.
C1_Witness ==
    /\ Returned /\ AcyclicManagers /\ NoListingFailed
    /\ \E m \in Managers \ {Root}, c \in AccountIds :
          /\ m \in children[Root] /\ c \in children[Root] /\ ~is_manager[c]
          /\ \E d \in children[m] : ~is_manager[d] /\ d \in client_customer_ids
          /\ c \in client_customer_ids

\* C2: a GoogleAdsException of a listing call never leaves the traversal, and
\* the result holds every client linked below the root over managers whose
\* listing succeeded.
C2_FailedBranchIsSkipped ==
    /\ TraversalRaised => \E a \in AccountIds : outcome[a] = "unexpected"
    /\ Returned => ClientsBelowRoot(ListedOk) \subseteq client_customer_ids

\* The listing of a manager below the root failed, and the traversal returned
\* the client the root lists directly.
C2_Witness ==
    /\ Returned
    /\ outcome[Root] = "ok"
    /\ \E m \in children[Root] \ {Root} : outcome[m] = "api_error"
    /\ \E c \in children[Root] : ~is_manager[c] /\ c \in client_customer_ids

\* C3: a listing that fails contributes nothing: the step that expands the
\* manager only removes it from the queue, whatever part of the stream was
\* consumed before the failure.
C3_FailedListingContributesNothing ==
    [][\A m \in AccountIds :
          (outcome[m] # "api_error" /\ outcome'[m] = "api_error")
             => /\ client_customer_ids' = client_customer_ids
                /\ processed_manager_ids' = processed_manager_ids
                /\ manager_ids_to_process' = Tail(manager_ids_to_process)]_vars

\* C4: no account is expanded twice; an account in the visited-set is either
\* still queued, once, or was expanded, once; when the traversal returns each
\* account of the visited-set was expanded exactly once.
C4_ExpandedExactlyOnce ==
    /\ \A a \in AccountIds : expansions[a] <= 1
    /\ pc = "traverse" =>
          \A a \in processed_manager_ids :
              expansions[a] + Occurrences(manager_ids_to_process, a) = 1
    /\ Returned => \A a \in processed_manager_ids : expansions[a] = 1

\* The traversal returned after two managers, both expanded, had reported
\* the same sub-manager, and a manager had reported the root.
C4_Witness ==
    /\ Returned
    /\ \E s \in Managers \ {Root} : \E p, q \in Managers \ {s} :
          /\ p # q
          /\ s \in children[p] /\ s \in children[q]
          /\ outcome[p] = "ok" /\ outcome[q] = "ok"
          /\ expansions[s] = 1
    /\ \E m \in Managers : Root \in children[m] /\ outcome[m] = "ok"

\* C5: the traversal ends, by returning or by an unexpected exception, on
\* every hierarchy and whatever listing calls fail.
C5_TraversalTerminates ==
    (pc = "traverse") ~> (pc \in {"fetch", "failed"})

\* The traversal returned on a hierarchy with a cycle among the managers,
\* one of whose listings failed.
C5_Witness ==
    /\ Returned
    /\ ~AcyclicManagers
    /\ \E m \in Managers : outcome[m] = "api_error" /\ m \in Descendants(m, Managers)

\* C9: the result set never holds an account the service tags as a manager,
\* nor the root, nor an account of the visited-set.
C9_NoManagerInResult ==
    /\ \A a \in client_customer_ids : ~is_manager[a]
    /\ Root \notin client_customer_ids
    /\ client_customer_ids \cap processed_manager_ids = {}

\* In the middle of a traversal of a cyclic hierarchy with a failed listing,
\* clients are in the result and managers wait in the queue.
C9_Witness ==
    /\ pc = "traverse"
    /\ ~AcyclicManagers
    /\ \E a \in AccountIds : outcome[a] = "api_error"
    /\ client_customer_ids # {}
    /\ manager_ids_to_process # <<>>

\* C6: an API-level error, permission denied or other, and a successful
\* query without rows all make query_clicks_for_customer return the empty
\* list, and none of them makes it raise.
C6_EmptyOnDenialErrorAndNoRows ==
    (pc = "returned" /\
        (last_call.response.kind = "api_error" \/
         (last_call.response.kind = "rows" /\ last_call.response.rows = <<>>)))
      => (~last_call.raised /\ last_call.ret = <<>>)

\* The query failed with an error other than permission denied after a page
\* of rows had arrived, and the call returned the empty list.
C6_Witness ==
    /\ pc = "returned"
    /\ last_call.response.kind = "api_error"
    /\ ~PermissionDenied(last_call.response.errors)
    /\ last_call.response.rows # <<>>
    /\ last_call.ret = <<>> /\ ~last_call.raised

\* C7: a successful query with n rows returns n records, the j-th built from
\* the j-th row and stamped with the account that was asked for.
C7_OneRecordPerRowInOrder ==
    (pc = "returned" /\ last_call.response.kind = "rows")
      => /\ ~last_call.raised
         /\ Len(last_call.ret) = Len(last_call.response.rows)
         /\ \A j \in DOMAIN last_call.ret :
               /\ last_call.ret[j].customer_id = last_call.customer_id
               /\ last_call.ret[j].gclid = last_call.response.rows[j].gclid
               /\ last_call.ret[j].campaign_id = last_call.response.rows[j].campaign_id
               /\ last_call.ret[j].ad_group_id = last_call.response.rows[j].ad_group_id
               /\ last_call.ret[j].timestamp = last_call.response.rows[j].date

\* Two different rows came back for one account and two records were returned.
C7_Witness ==
    /\ pc = "returned"
    /\ last_call.response.kind = "rows"
    /\ Len(last_call.response.rows) = 2
    /\ last_call.response.rows[1] # last_call.response.rows[2]
    /\ Len(last_call.ret) = 2
    /\ last_call.ret[1].customer_id = last_call.customer_id

AllOnTargetDate == \A j \in DOMAIN all_data : all_data[j].timestamp = query_date

\* C8 as stated: every aggregated record carries the run's target date,
\* whatever the service returns.
C8_AllRecordsOnTargetDate == AllOnTargetDate

\* C8 as amended: the records carry the dates of the rows the service
\* delivered, so all of them carry the target date exactly as long as the
\* service has delivered no row of another date.
C8_RecordsCarryRowDates == AllOnTargetDate <=> ~off_date

\* Two accounts have contributed records, every delivered row was of the
\* queried date.
C8_Witness ==
    /\ pc = "fetch"
    /\ ~off_date
    /\ \E j, k \in DOMAIN all_data : all_data[j].customer_id # all_data[k].customer_id
    /\ AllOnTargetDate

\* The records a written file holds, read back member by member.
Member(object, key) ==
    LET j == CHOOSE i \in DOMAIN object : object[i][1] = key IN object[j][2]

RecordsOf(file) ==
    [j \in DOMAIN file |->
        [gclid |-> Member(file[j], "gclid"),
         campaign_id |-> Member(file[j], "campaign_id"),
         ad_group_id |-> Member(file[j], "ad_group_id"),
         timestamp |-> Member(file[j], "timestamp"),
         customer_id |-> Member(file[j], "customer_id")]]

\* C10: no file is written before the sweep is over; a run that ends
\* normally has written a file exactly if the aggregate is not empty, then
\* one file, holding the whole aggregate.
C10_FileIffAggregateNonEmpty ==
    /\ pc # "done" => files = <<>>
    /\ pc = "done" =>
          /\ (files # <<>>) <=> (all_data # <<>>)
          /\ Len(files) <= 1
          /\ \A f \in DOMAIN files : RecordsOf(files[f]) = all_data

\* A run ended after writing the one file with the records of two accounts.
C10_Witness ==
    /\ pc = "done"
    /\ Len(files) = 1
    /\ \E j, k \in DOMAIN all_data : all_data[j].customer_id # all_data[k].customer_id
    /\ Len(files[1]) = Len(all_data)

\* A run ended normally with an empty aggregate although accounts were queried.
C10_WitnessNoFile ==
    /\ pc = "done"
    /\ customer_ids_to_query # <<>>
    /\ all_data = <<>>
    /\ files = <<>>

\* C11: with a required credential field empty the run ends before any
\* listing call and any click query, and writes no file.
C11_MissingCredentialsAbort ==
    (\E f \in REQUIRED_FIELDS : GOOGLE_ADS_CONFIG[f] = <<>>)
      => /\ pc \in {"start", "aborted"}
         /\ \A a \in AccountIds : expansions[a] = 0 /\ outcome[a] = "none"
         /\ next_index = 0 /\ customer_ids_to_query = <<>> /\ all_data = <<>>
         /\ files = <<>>

\* The run was aborted because the refresh token is empty.
C11_Witness ==
    /\ pc = "aborted"
    /\ GOOGLE_ADS_CONFIG["refresh_token"] = <<>>
    /\ GOOGLE_ADS_CONFIG["login_customer_id"] # <<>>

\* An error that is no GoogleAdsException was raised by a listing call or by
\* a click query.
UnexpectedSeen ==
    last_kind = "unexpected" \/ \E a \in AccountIds : outcome[a] = "unexpected"

\* C12: once an unexpected error was raised in the traversal or in the fetch
\* loop the run has ended in failure, and no file was written.
C12_UnexpectedErrorFailsWithoutOutput ==
    /\ UnexpectedSeen => pc = "failed"
    /\ pc = "failed" => (UnexpectedSeen /\ files = <<>>)

\* A click query raised an unexpected error after records of an earlier
\* account had been aggregated: the run failed; the records are in memory only.
C12_Witness ==
    /\ pc = "failed"
    /\ last_kind = "unexpected"
    /\ all_data # <<>>
    /\ files = <<>>

FetchedIds == {fetched[j].customer_id : j \in DOMAIN fetched}

\* C14: the root is listed once (one traversal); no click query is issued
\* before the traversal has returned; the accounts queried are accounts of
\* the resolved set, in strictly ascending order, the smallest not yet queried
\* first; at the end of the sweep each account of the set was queried once.
C14_OneSweepInSortedOrder ==
    LET ids == FetchedIds
        rest == client_customer_ids \ ids
    IN /\ expansions[Root] <= 1
       /\ pc \in {"start", "aborted", "crashed", "traverse"} \/ TraversalRaised
             => fetched = <<>> /\ last_kind = "none"
       /\ ids \subseteq client_customer_ids
       /\ \A j \in DOMAIN fetched :
             /\ j > 1 => fetched[j - 1].customer_id < fetched[j].customer_id
             /\ \A c \in rest : fetched[j].customer_id < c
       /\ last_kind = "unexpected" /\ ~TraversalRaised =>
             /\ next_index \in DOMAIN customer_ids_to_query
             /\ customer_ids_to_query[next_index] \in rest
       /\ pc = "done" => rest = {}

\* A sweep over two accounts has ended.
C14_Witness ==
    /\ pc = "done"
    /\ Len(fetched) = 2
    /\ Cardinality(client_customer_ids) = 2
    /\ expansions[Root] = 1

RECURSIVE Flatten(_)
Flatten(lists) == IF lists = <<>> THEN <<>> ELSE Head(lists) \o Flatten(Tail(lists))

IsPrefix(s, t) == Len(s) <= Len(t) /\ SubSeq(t, 1, Len(s)) = s

\* C15: the aggregate is always the concatenation, in the order of the sorted
\* accounts, of what the queries returned; a step never changes what was
\* aggregated before; a query that fails with an API error adds nothing and
\* the loop goes on with the next account; the sweep ends with one answer per
\* account.
C15_FetchFailuresIsolated ==
    [][/\ all_data' = Flatten([j \in DOMAIN fetched' |-> fetched'[j].ret])
       /\ IsPrefix(all_data, all_data')
       /\ IsPrefix(fetched, fetched')
       /\ \A j \in DOMAIN fetched' :
             /\ fetched'[j].customer_id = customer_ids_to_query'[j]
             /\ \A i \in DOMAIN fetched'[j].ret :
                   fetched'[j].ret[i].customer_id = fetched'[j].customer_id
       /\ (fetched' # fetched /\ last_kind' = "api_error") =>
             /\ all_data' = all_data
             /\ pc' = "fetch" /\ next_index' = next_index + 1
       /\ pc' = "done" => Len(fetched') = Len(customer_ids_to_query')]_vars

\* The sweep ended after the first account had returned records and the
\* query of the second had failed with an API error.
C15_Witness ==
    /\ pc = "done"
    /\ Len(fetched) = 2
    /\ fetched[1].ret # <<>>
    /\ last_kind = "api_error"
    /\ all_data = fetched[1].ret

\* ------------------------- get_full_account_hierarchy called twice
\* Two calls with the same root against one hierarchy.  Which managers fail
\* with an API error is part of the hierarchy: outcome is fixed at the start
\* and both calls replay it.  The order of the rows, and how many of them a
\* failing stream yields before it fails, are the service's choice per call.
ListingFates ==
    {o \in [AccountIds -> {"none", "ok", "api_error"}] :
        \A a \in AccountIds : (o[a] = "none") <=> ~is_manager[a]}

InitTwice ==
    /\ GOOGLE_ADS_CONFIG \in {c \in GOOGLE_ADS_CONFIG_Space : MissingFields(c) = {}}
    /\ \E g \in AccountGraphs : children = g.children /\ is_manager = g.is_manager
    /\ outcome \in ListingFates
    /\ pc = "traverse"
    /\ manager_ids_to_process = <<Root>>
    /\ processed_manager_ids = {Root}
    /\ client_customer_ids = {}
    /\ expansions = [a \in AccountIds |-> 0]
    /\ customer_ids_to_query = <<>>
    /\ next_index = 0
    /\ query_date = 0
    /\ all_data = <<>>
    /\ last_call = NoCall
    /\ off_date = FALSE
    /\ files = <<>>
    /\ bfs = NoTrace
    /\ fetched = <<>>
    /\ last_kind = "none"

\* One iteration of the while loop, in the first or in the second call.
ExpandManagerReplayed ==
    /\ pc \in {"traverse", "traverse2"}
    /\ ExpandStep(TRUE, FALSE)

\* The first call returns its set, kept here as the sorted list; the second
\* call starts with a fresh queue, visited-set and result set.
ResolveAgain ==
    /\ pc = "traverse"
    /\ manager_ids_to_process = <<>>
    /\ customer_ids_to_query' = Sorted(client_customer_ids)
    /\ manager_ids_to_process' = <<Root>>
    /\ processed_manager_ids' = {Root}
    /\ client_customer_ids' = {}
    /\ pc' = "traverse2"
    /\ UNCHANGED <<serviceVars, outcome, expansions, bfs, next_index, query_date,
                   all_data, last_call, off_date, fetched, last_kind, files>>

\* The second call returns.
ReturnAgain ==
    /\ pc = "traverse2"
    /\ manager_ids_to_process = <<>>
    /\ pc' = "returned2"
    /\ UNCHANGED <<serviceVars, traversalVars, fetchVars, query_date, files>>

NextTwice ==
    \/ ExpandManagerReplayed
    \/ ResolveAgain
    \/ ReturnAgain

TwiceSpec == InitTwice /\ [][NextTwice]_vars

FirstResult == {customer_ids_to_query[j] : j \in DOMAIN customer_ids_to_query}

\* C13: two calls with the same root, the same links and the same failing
\* managers return equal sets, whatever the order of the rows in either call.
C13_ResolveTwiceEqualSets ==
    pc = "returned2" => client_customer_ids = FirstResult

\* The same holds of hierarchies in which no listing fails.
C13_EqualSetsWhenNoListingFails ==
    (pc = "returned2" /\ \A a \in AccountIds : outcome[a] # "api_error")
        => client_customer_ids = FirstResult

AtLevel(log, level) == SelectSeq(log, LAMBDA r : r.level = level)

DeniedAnswer(response) ==
    /\ response.kind = "api_error"
    /\ \E j \in DOMAIN response.errors : response.errors[j].code = "USER_PERMISSION_DENIED"

OtherFailure(response) ==
    /\ response.kind = "api_error"
    /\ \A j \in DOMAIN response.errors : response.errors[j].code # "USER_PERMISSION_DENIED"

NoRows(response) == response.kind = "rows" /\ response.rows = <<>>

\* C16: the three outcomes return the same empty list and differ in the log
\* only: a failure reporting permission denied logs once at debug level and
\* never warns; any other API failure logs exactly one warning, with the
\* message of the first reported error; a successful query without rows logs
\* once at info level, no debug and no warning.  At the configured threshold
\* the debug record is filtered, so the three outputs are: nothing, one
\* warning, one info record.
C16_EmptyOutcomesDifferInLogOnly ==
    pc = "returned" =>
      LET response == last_call.response
          log == last_call.log
      IN /\ (DeniedAnswer(response) \/ OtherFailure(response) \/ NoRows(response))
               => (last_call.ret = <<>> /\ ~last_call.raised)
         /\ DeniedAnswer(response) =>
               /\ Len(log) = 1 /\ log[1].level = "DEBUG"
               /\ AtLevel(log, "WARNING") = <<>>
               /\ Emitted(log) = <<>>
         /\ OtherFailure(response) =>
               /\ Len(AtLevel(log, "WARNING")) = 1
               /\ AtLevel(log, "WARNING")[1].text = response.errors[1].message
               /\ AtLevel(log, "DEBUG") = <<>>
               /\ Emitted(log) = AtLevel(log, "WARNING")
         /\ NoRows(response) =>
               /\ Len(log) = 1 /\ log[1].level = "INFO"
               /\ AtLevel(log, "DEBUG") = <<>> /\ AtLevel(log, "WARNING") = <<>>
               /\ Emitted(log) = log

\* The failure reported another error first and permission denied second:
\* the call logged at debug level and did not warn.
C16_Witness ==
    /\ pc = "returned"
    /\ last_call.response.kind = "api_error"
    /\ Len(last_call.response.errors) = 2
    /\ last_call.response.errors[1].code = "OTHER"
    /\ last_call.response.errors[2].code = "USER_PERMISSION_DENIED"
    /\ last_call.log = <<[level |-> "DEBUG", text |-> "permission denied"]>>
    /\ last_call.ret = <<>>

Queued == {manager_ids_to_process[j] : j \in DOMAIN manager_ids_to_process}

\* The accounts some issued listing can have reported as manager.
ReportedAsManager ==
    {c \in UNION {children[a] : a \in {x \in AccountIds : expansions[x] > 0}} :
        is_manager[c]}

\* C17: in every state of the traversal the queue holds no ID twice; every
\* queued ID is in the visited-set; the visited IDs, hence the IDs a listing
\* was issued for, are the root and IDs that an issued listing reported as
\* manager; no listing is ever issued for a client.
C17_QueueHoldsNewManagersOnly ==
    pc = "traverse" =>
       LET queued == Queued
           known == {Root} \cup ReportedAsManager
       IN /\ Cardinality(queued) = Len(manager_ids_to_process)
          /\ queued \subseteq processed_manager_ids
          /\ processed_manager_ids \subseteq known
          /\ \A a \in AccountIds :
                /\ expansions[a] > 0 =>
                      (a \in known /\ a \notin queued /\ expansions[a] = 1)
                /\ ~is_manager[a] => (expansions[a] = 0 /\ a \notin queued)

\* A sub-manager that two listed managers both reported waits in the queue,
\* once.
C17_Witness ==
    /\ pc = "traverse"
    /\ \E a \in AccountIds \ {Root}, b \in AccountIds \ {Root} :
          /\ a # b
          /\ expansions[Root] = 1 /\ outcome[Root] = "ok"
          /\ expansions[a] = 1 /\ outcome[a] = "ok"
          /\ b \in children[Root] /\ b \in children[a]
          /\ manager_ids_to_process = <<b>>

\* ------------------------------- the order of expansion, on its own
\* get_full_account_hierarchy on hierarchies one account larger, deep enough
\* for two managers of one depth and a sub-manager below the first of them.
\* The links go from smaller to larger IDs: every hierarchy without a cycle
\* is one of these up to the names of its accounts, and the rows of a
\* listing come in any order.
DeepIds == 1..(NumAccounts + 1)

ForwardLinks == {l \in DeepIds \X DeepIds : l[1] < l[2]}

DeepGraphs ==
    {[children |-> [a \in DeepIds |-> {b \in DeepIds : <<a, b>> \in L}],
      is_manager |-> im] :
        L \in {K \in SUBSET ForwardLinks : Cardinality(K) <= MaxLinks},
        im \in [DeepIds -> BOOLEAN]}

InitOrder ==
    /\ GOOGLE_ADS_CONFIG \in {c \in GOOGLE_ADS_CONFIG_Space : MissingFields(c) = {}}
    /\ \E g \in DeepGraphs :
          /\ g.is_manager[Root]
          /\ \A a \in DeepIds : ~g.is_manager[a] => g.children[a] = {}
          /\ children = g.children
          /\ is_manager = g.is_manager
    /\ pc = "traverse"
    /\ manager_ids_to_process = <<Root>>
    /\ processed_manager_ids = {Root}
    /\ client_customer_ids = {}
    /\ outcome = [a \in DeepIds |-> "none"]
    /\ expansions = [a \in DeepIds |-> 0]
    /\ bfs = [discovered |-> <<>>, expanded |-> <<>>, depth |-> [a \in DeepIds |-> 0]]
    /\ customer_ids_to_query = <<>>
    /\ next_index = 0
    /\ query_date = 0
    /\ all_data = <<>>
    /\ last_call = NoCall
    /\ off_date = FALSE
    /\ files = <<>>
    /\ fetched = <<>>
    /\ last_kind = "none"

\* One iteration of the while loop, with the history of the order kept.
ExpandManagerTraced ==
    /\ pc = "traverse"
    /\ ExpandStep(FALSE, TRUE)

\* The queue is empty: the function returns.
ReturnTraced ==
    /\ pc = "traverse"
    /\ manager_ids_to_process = <<>>
    /\ pc' = "returned"
    /\ UNCHANGED <<serviceVars, traversalVars, fetchVars, query_date, files>>

NextOrder ==
    \/ ExpandManagerTraced
    \/ ReturnTraced

OrderSpec == InitOrder /\ [][NextOrder]_vars

\* The managers of a history in the order they became known, root first.
Found(trace) == <<Root>> \o trace.discovered

\* The managers dequeued so far are the first ones that became known, in
\* that order, the queue holds the others in that order, and depths never
\* decrease along the two.
FifoOrder(trace, queue) ==
    LET line == trace.expanded \o queue
    IN /\ line = Found(trace)
       /\ \A i, j \in DOMAIN line : i < j => trace.depth[line[i]] <= trace.depth[line[j]]

\* C18: the root is expanded first; managers are dequeued in exactly the
\* order in which they were first discovered; every expanded manager is at
\* most as deep as every discovered manager still waiting; a step takes the
\* head off the queue and adds, at the end, exactly the managers it
\* discovered, none of which was known before.
C18_ExpandedInBreadthFirstOrder ==
    [][pc' \in {"traverse", "returned"} =>
         /\ FifoOrder(bfs', manager_ids_to_process')
         /\ bfs' # bfs =>
              LET new == SubSeq(bfs'.discovered, Len(bfs.discovered) + 1,
                                Len(bfs'.discovered))
              IN /\ bfs'.expanded = Append(bfs.expanded, Head(manager_ids_to_process))
                 /\ manager_ids_to_process' = Tail(manager_ids_to_process) \o new
                 /\ Len(manager_ids_to_process') =
                       Len(manager_ids_to_process) - 1 + Len(new)
                 /\ \A j \in DOMAIN new :
                       /\ new[j] \notin processed_manager_ids
                       /\ is_manager[new[j]]
                       /\ new[j] \in children[Head(manager_ids_to_process)]
                       /\ bfs'.depth[new[j]] = bfs.depth[Head(manager_ids_to_process)] + 1]_vars

\* Two managers of depth 1 were expanded, then a manager of depth 2 that the
\* first of the two had reported: it waited until the second was done.
C18_Witness ==
    /\ pc \in {"traverse", "returned"}
    /\ Len(bfs.expanded) = 4
    /\ bfs.expanded[1] = Root
    /\ bfs.depth[bfs.expanded[2]] = 1
    /\ bfs.depth[bfs.expanded[3]] = 1
    /\ bfs.depth[bfs.expanded[4]] = 2
    /\ bfs.expanded[4] \in children[bfs.expanded[2]]

====
